---------------------------- MODULE Spec2Model ----------------------------
(***************************************************************************)
(* Model of src/ep.py: the genetic-algorithm fixture scheduler             *)
(* (class Campeonato).  A team is its index in the roster `times`; a       *)
(* Partida is a record [mandante, visitante, rodada]; a calendar is a      *)
(* sequence of Partida.                                                    *)
(***************************************************************************)
EXTENDS Integers, Sequences, FiniteSets, TLC

\* ------------------------------------------------------------------ bounds
MaxRodadas == 2
MaxPop == 3
MaxGeracoes == 1
MaxTam == 6
MaxOmitidos == 3

\* --------------------------------------------------------------- constants
TamanhoTorneio == 3
NumGrandes == 5
PenJogoFaltante == 1000
PenTime == 100
PenCidade == 50
PenClassico == 200
PenConfronto == 300

\* ----------------------------------------------------------------- rosters
Time(cidade, torcedores) == [cidade |-> cidade, torcedores |-> torcedores]

Roster1 == << Time("X", 30) >>
Roster2 == << Time("X", 30), Time("Y", 20) >>
Roster3 == << Time("X", 30), Time("X", 20), Time("Y", 40) >>
Roster4 == << Time("X", 40), Time("X", 30), Time("Y", 20), Time("Y", 10) >>

\* ------------------------------------------------------------- constructor
jogos_por_rodada(ts) == Len(ts) \div 2

\* sorted(times, key=-torcedores)[:5]: the sort is stable, so a team's rank is
\* the number of teams with more supporters, or as many and an earlier index.
Rank(ts, t) ==
    Cardinality({u \in 1..Len(ts) :
                    \/ ts[u].torcedores > ts[t].torcedores
                    \/ (ts[u].torcedores = ts[t].torcedores /\ u < t)})

\* A slice that keeps the single best-supported team, [:1].
times_grandes_so_o_maior(ts) == {t \in 1..Len(ts) : Rank(ts, t) < 1}

times_grandes(ts) == {t \in 1..Len(ts) : Rank(ts, t) < NumGrandes}

\* for i: for j: if i != j: append((times[i], times[j]))
todos_jogos(ts) ==
    LET n == Len(ts)
        Pair(k) == << ((k - 1) \div n) + 1, ((k - 1) % n) + 1 >>
        all == [k \in 1..(n * n) |-> Pair(k)]
    IN  SelectSeq(all, LAMBDA p : p[1] # p[2])

Partida(m, v, r) == [mandante |-> m, visitante |-> v, rodada |-> r]

Confronto(p) == << p.mandante, p.visitante >>

\* ----------------------------------------------------------------- helpers
\* defaultdict(list) filled in calendar order: the rounds in order of first
\* occurrence, and the matches of one round in calendar order.
RECURSIVE RodadasDesde(_, _, _)
RodadasDesde(cal, k, ordem) ==
    IF k > Len(cal) THEN ordem
    ELSE IF \E q \in 1..Len(ordem) : ordem[q] = cal[k].rodada
         THEN RodadasDesde(cal, k + 1, ordem)
         ELSE RodadasDesde(cal, k + 1, Append(ordem, cal[k].rodada))

RodadasEmOrdem(cal) == RodadasDesde(cal, 1, << >>)

JogosDaRodada(cal, r) == SelectSeq(cal, LAMBDA p : p.rodada = r)

RECURSIVE Concat(_)
Concat(ss) == IF ss = << >> THEN << >> ELSE Head(ss) \o Concat(Tail(ss))

Ocorrencias(cal, c) == Cardinality({k \in 1..Len(cal) : Confronto(cal[k]) = c})


\* ------------------------------------------------- gerar_populacao_inicial
\* The inner while loop of one round: pop(0) until the round is full or the
\* pool is empty; a popped pairing that does not fit is dropped.
RECURSIVE MontarRodada(_, _, _, _, _, _)
MontarRodada(ts, rodada, disp, jogos_rodada, times_na_rodada, cidades_na_rodada) ==
    IF ~(Len(jogos_rodada) < jogos_por_rodada(ts) /\ disp # << >>)
    THEN [jogos |-> jogos_rodada, disp |-> disp]
    ELSE LET mandante == Head(disp)[1]
             visitante == Head(disp)[2]
         IN  IF /\ mandante \notin times_na_rodada
                /\ visitante \notin times_na_rodada
                /\ ts[mandante].cidade \notin cidades_na_rodada
             THEN MontarRodada(ts, rodada, Tail(disp),
                               Append(jogos_rodada, Partida(mandante, visitante, rodada)),
                               times_na_rodada \cup {mandante, visitante},
                               cidades_na_rodada \cup {ts[mandante].cidade})
             ELSE MontarRodada(ts, rodada, Tail(disp), jogos_rodada,
                               times_na_rodada, cidades_na_rodada)

\* for rodada in range(1, num_rodadas + 1): ... calendario.extend(jogos_rodada)
RECURSIVE MontarCalendario(_, _, _, _, _)
MontarCalendario(ts, nrod, rodada, disp, calendario) ==
    IF rodada > nrod THEN calendario
    ELSE LET r == MontarRodada(ts, rodada, disp, << >>, {}, {})
         IN  MontarCalendario(ts, nrod, rodada + 1, r.disp, calendario \o r.jogos)

\* random.shuffle: any permutation of the pairing list.
Permutacoes(n) == {f \in [1..n -> 1..n] : \A a, b \in 1..n : f[a] = f[b] => a = b}

Embaralhar(jogos, f) == [k \in 1..Len(jogos) |-> jogos[f[k]]]

gerar_individuo(ts, nrod, f) ==
    MontarCalendario(ts, nrod, 1, Embaralhar(todos_jogos(ts), f), << >>)

\* -------------------------------------------------------- calcular_fitness
\* The scan of one round (lines 91-117): +100 for a match with a team already
\* seen, +50 for a home city already seen, +200 per marquee clash beyond one.
RECURSIVE VarrerRodada(_, _, _, _, _, _, _, _)
VarrerRodada(ts, grandes, jogos, k, times_rodada, cidades_rodada, classicos_rodada, pen) ==
    IF k > Len(jogos)
    THEN pen + (IF classicos_rodada > 1 THEN PenClassico * (classicos_rodada - 1) ELSE 0)
    ELSE LET jogo == jogos[k]
             p1 == IF jogo.mandante \in times_rodada \/ jogo.visitante \in times_rodada
                   THEN PenTime ELSE 0
             p2 == IF ts[jogo.mandante].cidade \in cidades_rodada THEN PenCidade ELSE 0
             c  == IF jogo.mandante \in grandes /\ jogo.visitante \in grandes
                   THEN 1 ELSE 0
         IN  VarrerRodada(ts, grandes, jogos, k + 1,
                          times_rodada \cup {jogo.mandante, jogo.visitante},
                          cidades_rodada \cup {ts[jogo.mandante].cidade},
                          classicos_rodada + c, pen + p1 + p2)

RECURSIVE SomaRodadas(_, _, _, _, _)
SomaRodadas(ts, grandes, cal, rods, k) ==
    IF k > Len(rods) THEN 0
    ELSE VarrerRodada(ts, grandes, JogosDaRodada(cal, rods[k]), 1, {}, {}, 0, 0)
         + SomaRodadas(ts, grandes, cal, rods, k + 1)

\* lines 83-84: the match-count term, added whenever the lengths differ.
PenContagem(jogos, cal) ==
    IF Len(cal) # Len(jogos)
    THEN PenJogoFaltante * (Len(jogos) - Len(cal))
    ELSE 0

\* A completeness check that tests "> 1" and so misses the absent pairings.
PenConfrontosSoDuplicados(jogos, cal) ==
    PenConfronto * Cardinality({k \in 1..Len(jogos) : Ocorrencias(cal, jogos[k]) > 1})

\* lines 119-127: +300 for every required pairing not scheduled exactly once.
PenConfrontos(jogos, cal) ==
    PenConfronto * Cardinality({k \in 1..Len(jogos) : Ocorrencias(cal, jogos[k]) # 1})

\* The penalty total, given self.todos_jogos and self.times_grandes.
Penalizar(ts, jogos, grandes, cal) ==
    PenContagem(jogos, cal)
    + SomaRodadas(ts, grandes, cal, RodadasEmOrdem(cal), 1)
    + PenConfrontos(jogos, cal)

penalidades(ts, cal) == Penalizar(ts, todos_jogos(ts), times_grandes(ts), cal)

\* return 1 / (1 + penalidades): the fitness as the fraction num/den.  Every
\* term of the penalty is a multiple of 50, so 1 + penalidades is never 0 and
\* the division never raises; the denominator is negative when the penalty is.
calcular_fitness(ts, cal) == [num |-> 1, den |-> 1 + penalidades(ts, cal)]

\* A comparison in the wrong direction: f < g.
FitGTInvertido(f, g) ==
    IF f.den * g.den > 0 THEN g.den * f.num < f.den * g.num
    ELSE g.den * f.num > f.den * g.num

\* f > g for two fitness values 1/a and 1/b (a, b nonzero).
FitGT(f, g) ==
    IF f.den * g.den > 0 THEN g.den * f.num > f.den * g.num
    ELSE g.den * f.num < f.den * g.num

\* max(seq, key=...) over the keys fs: the first position no other one beats.
ArgMax(fs) ==
    CHOOSE i \in 1..Len(fs) :
        \A j \in 1..Len(fs) :
            IF j < i THEN FitGT(fs[i], fs[j]) ELSE ~FitGT(fs[j], fs[i])

Fitnesses(ts, pop) == [k \in 1..Len(pop) |-> calcular_fitness(ts, pop[k])]

MelhorIndice(ts, pop) == ArgMax(Fitnesses(ts, pop))

\* --------------------------------------------------------------- crossover
RECURSIVE AcrescentarDoPai2(_, _, _, _)
AcrescentarDoPai2(filho, jogos_filho, pai2, k) ==
    IF k > Len(pai2) THEN filho
    ELSE IF Confronto(pai2[k]) \notin jogos_filho
         THEN AcrescentarDoPai2(Append(filho, pai2[k]),
                                jogos_filho \cup {Confronto(pai2[k])}, pai2, k + 1)
         ELSE AcrescentarDoPai2(filho, jogos_filho, pai2, k + 1)

\* A crossover that never records the pairings it appends (line 156 left out).
crossover_sem_registro(pai1, pai2, ponto_corte) ==
    LET filho == SubSeq(pai1, 1, ponto_corte)
        jogos_filho == {Confronto(filho[k]) : k \in 1..Len(filho)}
    IN  filho \o SelectSeq(pai2, LAMBDA p : Confronto(p) \notin jogos_filho)

crossover(pai1, pai2, ponto_corte) ==
    LET filho == SubSeq(pai1, 1, ponto_corte)
        jogos_filho == {Confronto(filho[k]) : k \in 1..Len(filho)}
    IN  AcrescentarDoPai2(filho, jogos_filho, pai2, 1)

\* ----------------------------------------------------------------- mutacao
\* calendario[idx1], calendario[idx2] = calendario[idx2], calendario[idx1]
\* (positions here are 1-based).
\* A mutation that exchanges the round tags and leaves the pairings in place.
mutacao_troca_rodadas(calendario, idx1, idx2) ==
    [calendario EXCEPT ![idx1].rodada = calendario[idx2].rodada,
                       ![idx2].rodada = calendario[idx1].rodada]

mutacao(calendario, idx1, idx2) ==
    [calendario EXCEPT ![idx1] = calendario[idx2], ![idx2] = calendario[idx1]]

\* ------------------------------------------------------ reparar_calendario
RECURSIVE RepararRodada(_, _, _, _, _, _)
RepararRodada(ts, jogos, k, times_usados, cidades_usadas, jogos_validos) ==
    IF k > Len(jogos) THEN jogos_validos
    ELSE LET jogo == jogos[k]
         IN  IF /\ jogo.mandante \notin times_usados
                /\ jogo.visitante \notin times_usados
                /\ ts[jogo.mandante].cidade \notin cidades_usadas
             THEN RepararRodada(ts, jogos, k + 1,
                                times_usados \cup {jogo.mandante, jogo.visitante},
                                cidades_usadas \cup {ts[jogo.mandante].cidade},
                                Append(jogos_validos, jogo))
             ELSE RepararRodada(ts, jogos, k + 1, times_usados, cidades_usadas, jogos_validos)

\* A repair that forgets the city test and keeps only the team test.
RECURSIVE RepararRodadaSoTimes(_, _, _, _)
RepararRodadaSoTimes(jogos, k, times_usados, jogos_validos) ==
    IF k > Len(jogos) THEN jogos_validos
    ELSE IF jogos[k].mandante \notin times_usados /\ jogos[k].visitante \notin times_usados
         THEN RepararRodadaSoTimes(jogos, k + 1,
                                   times_usados \cup {jogos[k].mandante, jogos[k].visitante},
                                   Append(jogos_validos, jogos[k]))
         ELSE RepararRodadaSoTimes(jogos, k + 1, times_usados, jogos_validos)

reparar_so_times(ts, cal) ==
    LET rods == RodadasEmOrdem(cal)
    IN  Concat([k \in 1..Len(rods) |->
                  RepararRodadaSoTimes(JogosDaRodada(cal, rods[k]), 1, {}, << >>)])

\* A repair that forgets the team test and keeps only the city test.
RECURSIVE RepararRodadaSoCidades(_, _, _, _, _)
RepararRodadaSoCidades(ts, jogos, k, cidades_usadas, jogos_validos) ==
    IF k > Len(jogos) THEN jogos_validos
    ELSE IF ts[jogos[k].mandante].cidade \notin cidades_usadas
         THEN RepararRodadaSoCidades(ts, jogos, k + 1,
                                     cidades_usadas \cup {ts[jogos[k].mandante].cidade},
                                     Append(jogos_validos, jogos[k]))
         ELSE RepararRodadaSoCidades(ts, jogos, k + 1, cidades_usadas, jogos_validos)

reparar_so_cidades(ts, cal) ==
    LET rods == RodadasEmOrdem(cal)
    IN  Concat([k \in 1..Len(rods) |->
                  RepararRodadaSoCidades(ts, JogosDaRodada(cal, rods[k]), 1, {}, << >>)])

reparar_calendario(ts, cal) ==
    LET rods == RodadasEmOrdem(cal)
    IN  Concat([k \in 1..Len(rods) |->
                  RepararRodada(ts, JogosDaRodada(cal, rods[k]), 1, {}, {}, << >>)])


\* ================================================================ executar
VARIABLES times, num_rodadas, tamanho_populacao, geracoes,
          pc, excecao, populacao, nova_populacao,
          melhor_calendario, melhor_fitness, geracao,
          op, cal, pai2, sorteio, prox, res

vars == << times, num_rodadas, tamanho_populacao, geracoes,
           pc, excecao, populacao, nova_populacao,
           melhor_calendario, melhor_fitness, geracao,
           op, cal, pai2, sorteio, prox, res >>

config == << times, num_rodadas, tamanho_populacao, geracoes >>
runvars == << pc, excecao, populacao, nova_populacao,
              melhor_calendario, melhor_fitness, geracao >>
opvars == << op, cal, pai2, sorteio, prox, res >>

SemFitness == [num |-> 0, den |-> 0]

RostersRun == {Roster1, Roster2}

\* Every calendar one iteration of gerar_populacao_inicial can build: one
\* per shuffle of the pairing list.
CalendariosIniciais ==
    [ts \in RostersRun |->
        [nrod \in 1..MaxRodadas |->
            {gerar_individuo(ts, nrod, f) : f \in Permutacoes(Len(todos_jogos(ts)))}]]

\* The variables of the single-operation specifications, unused in a run.
OpsParadas ==
    /\ op = "none"
    /\ cal = << >>
    /\ pai2 = << >>
    /\ sorteio = << >>
    /\ prox = 0
    /\ res = << >>

\* The variables of executar, unused when one operation is applied alone.
RunParado ==
    /\ num_rodadas = MaxRodadas
    /\ tamanho_populacao = 0
    /\ geracoes = 0
    /\ pc = "none"
    /\ excecao = "none"
    /\ populacao = << >>
    /\ nova_populacao = << >>
    /\ melhor_calendario = << >>
    /\ melhor_fitness = SemFitness
    /\ geracao = 0

\* The round counts worth distinguishing: a round beyond the number of
\* pairings finds the pool empty (line 58) and stays empty, so a larger
\* num_rodadas builds the same calendars.
RodadasUteis(ts) ==
    {r \in 1..MaxRodadas : r = 1 \/ r <= Len(todos_jogos(ts))}

\* State after Campeonato(times, num_rodadas, tamanho_populacao), on entry
\* to executar(geracoes).
Init ==
    /\ times \in RostersRun
    /\ num_rodadas \in RodadasUteis(times)
    /\ tamanho_populacao \in 1..MaxPop
    /\ geracoes \in 0..MaxGeracoes
    /\ pc = "gerar"
    /\ excecao = "none"
    /\ populacao = << >>
    /\ nova_populacao = << >>
    /\ melhor_calendario = << >>
    /\ melhor_fitness = SemFitness
    /\ geracao = 0
    /\ OpsParadas

\* One iteration of the loop of gerar_populacao_inicial (lines 48-74).
GerarIndividuo ==
    /\ pc = "gerar"
    /\ Len(populacao) < tamanho_populacao
    /\ \E c \in CalendariosIniciais[times][num_rodadas] :
          populacao' = Append(populacao, c)
    /\ UNCHANGED << config, pc, excecao, nova_populacao, melhor_calendario,
                    melhor_fitness, geracao, opvars >>

\* Lines 201-202: the best of the initial population.
AvaliarInicial ==
    /\ pc = "gerar"
    /\ Len(populacao) = tamanho_populacao
    /\ LET i == MelhorIndice(times, populacao)
       IN  /\ melhor_calendario' = populacao[i]
           /\ melhor_fitness' = calcular_fitness(times, populacao[i])
    /\ geracao' = 1
    /\ pc' = "geracao"
    /\ UNCHANGED << config, excecao, populacao, nova_populacao, opvars >>

\* Lines 206-210: the head of the for loop and the elitism step.
Elitismo(melhor) == << melhor >>

IniciarGeracao ==
    /\ pc = "geracao"
    /\ geracao <= geracoes
    /\ nova_populacao' = Elitismo(melhor_calendario)
    /\ pc' = "filhos"
    /\ UNCHANGED << config, excecao, populacao, melhor_calendario, melhor_fitness,
                    geracao, opvars >>

\* random.sample(populacao, 3): three distinct positions, in sampled order.
Amostras(n) ==
    {s \in [1..TamanhoTorneio -> 1..n] :
        \A a, b \in 1..TamanhoTorneio : s[a] = s[b] => a = b}

\* max(participantes, key=calcular_fitness) for the sample s, given the
\* fitness fs of every calendar of the population.
Torneio(fs, s) == s[ArgMax([k \in 1..TamanhoTorneio |-> fs[s[k]]])]

\* selecionar_pais: every calendar a tournament can return; the two parents
\* are drawn by two independent tournaments.
VencedoresDe(fs, pop) == {pop[Torneio(fs, s)] : s \in Amostras(Len(pop))}

Vencedores(ts, pop) == VencedoresDe(Fitnesses(ts, pop), pop)

Levanta(quem) ==
    /\ pc' = "raised"
    /\ excecao' = quem
    /\ UNCHANGED << config, populacao, nova_populacao, melhor_calendario,
                    melhor_fitness, geracao, opvars >>

Acrescenta(f) ==
    /\ nova_populacao' = Append(nova_populacao, reparar_calendario(times, f))
    /\ UNCHANGED << config, pc, excecao, populacao, melhor_calendario,
                    melhor_fitness, geracao, opvars >>

\* Line 214 raising: random.sample(populacao, 3) raises ValueError when the
\* population holds fewer than 3 calendars.
FalhaSelecao ==
    /\ pc = "filhos"
    /\ Len(nova_populacao) < tamanho_populacao
    /\ Len(populacao) < TamanhoTorneio
    /\ Levanta("selecionar_pais")

\* Lines 216-225 for the parents pai1, pai2:
\*   line 217 raises (random.randint(0, len(pai1) - 1), pai1 empty), or
\*   line 220 raises (the mutation fires, random.sample(range(len), 2), on a
\*   child of fewer than 2 matches), or
\*   the child is repaired and appended, the mutation firing or not.
Reproduzir(pai1, pai2_) ==
    \/ /\ Len(pai1) = 0
       /\ Levanta("crossover")
    \/ /\ Len(pai1) > 0
       /\ \E ponto_corte \in 0..(Len(pai1) - 1) :
             LET f == crossover(pai1, pai2_, ponto_corte)
             IN  \/ Acrescenta(f)
                 \/ /\ Len(f) < 2
                    /\ Levanta("mutacao")
                 \/ /\ Len(f) >= 2
                    /\ \E idx1, idx2 \in 1..Len(f) :
                          /\ idx1 # idx2
                          /\ Acrescenta(mutacao(f, idx1, idx2))

ReproduzirCom(vencedores) == \E pai1, pai2_ \in vencedores : Reproduzir(pai1, pai2_)

\* One iteration of the while loop (lines 212-225).
ProduzirFilho ==
    /\ pc = "filhos"
    /\ Len(nova_populacao) < tamanho_populacao
    /\ Len(populacao) >= TamanhoTorneio
    /\ ReproduzirCom(Vencedores(times, populacao))

\* Line 233: the elite is replaced only by a strictly fitter calendar.
Substitui(fitness_atual, melhor) == FitGT(fitness_atual, melhor)

\* Lines 227-235: replace the population and update the elite.
FecharGeracao ==
    /\ pc = "filhos"
    /\ Len(nova_populacao) >= tamanho_populacao
    /\ populacao' = nova_populacao
    /\ LET melhor_atual == nova_populacao[MelhorIndice(times, nova_populacao)]
           fitness_atual == calcular_fitness(times, melhor_atual)
       IN  IF Substitui(fitness_atual, melhor_fitness)
           THEN /\ melhor_calendario' = melhor_atual
                /\ melhor_fitness' = fitness_atual
           ELSE UNCHANGED << melhor_calendario, melhor_fitness >>
    /\ nova_populacao' = << >>
    /\ geracao' = geracao + 1
    /\ pc' = "geracao"
    /\ UNCHANGED << config, excecao, opvars >>

\* Line 240: return melhor_calendario, melhor_fitness.
Retornar ==
    /\ pc = "geracao"
    /\ geracao > geracoes
    /\ pc' = "done"
    /\ UNCHANGED << config, excecao, populacao, nova_populacao, melhor_calendario,
                    melhor_fitness, geracao, opvars >>

Next ==
    \/ GerarIndividuo
    \/ AvaliarInicial
    \/ IniciarGeracao
    \/ FalhaSelecao
    \/ ProduzirFilho
    \/ FecharGeracao
    \/ Retornar

Spec == Init /\ [][Next]_vars


\* ===================================================== operations, applied
\* calcular_fitness, reparar_calendario and mutacao applied to any calendar
\* (valid or not) over a roster; crossover applied to any two parents.
Partidas(ts) ==
    {Partida(m, v, r) : m \in 1..Len(ts), v \in 1..Len(ts), r \in 1..MaxRodadas}
        \ {Partida(m, m, r) : m \in 1..Len(ts), r \in 1..MaxRodadas}

RECURSIVE SeqsAte(_, _)
SeqsAte(S, n) ==
    IF n = 0 THEN {<< >>}
    ELSE LET menores == SeqsAte(S, n - 1)
         IN  menores \cup {Append(q, x) : q \in {w \in menores : Len(w) = n - 1}, x \in S}

RostersCal == {Roster2, Roster4}

\* A larger roster gets shorter calendars: Len(cal) + Len(times) <= MaxTam.
InitCal ==
    /\ times \in RostersCal
    /\ cal \in SeqsAte(Partidas(times), MaxTam - Len(times))
    /\ op = "none"
    /\ pai2 = << >>
    /\ sorteio = << >>
    /\ prox = 0
    /\ res = << >>
    /\ RunParado

Aplicada(nome, sorteado, resultado) ==
    /\ op = "none"
    /\ op' = nome
    /\ sorteio' = sorteado
    /\ res' = resultado
    /\ UNCHANGED << config, runvars, cal, pai2, prox >>

AplicarFitness == Aplicada("calcular_fitness", << >>, calcular_fitness(times, cal))

AplicarReparar == Aplicada("reparar_calendario", << >>, reparar_calendario(times, cal))

\* mutacao, random.random() >= 0.1: the calendar is returned as it is.
AplicarMutacaoSemDisparo == Aplicada("mutacao", << >>, cal)

\* mutacao, random.random() < 0.1, on a calendar of at least 2 matches.
AplicarMutacao ==
    \E idx1, idx2 \in 1..Len(cal) :
        /\ idx1 # idx2
        /\ Aplicada("mutacao", << idx1, idx2 >>, mutacao(cal, idx1, idx2))

NextCal ==
    \/ AplicarFitness
    \/ AplicarReparar
    \/ AplicarMutacaoSemDisparo
    \/ AplicarMutacao

SpecCal == InitCal /\ [][NextCal]_vars

\* Two parents over the two-team roster (crossover reads pairings only):
\* Len(pai1) + Len(pai2) + Len(times) <= MaxTam.
InitCross ==
    /\ times = Roster2
    /\ \E n \in 0..(MaxTam - Len(times)) :
          /\ cal \in SeqsAte(Partidas(times), n)
          /\ pai2 \in SeqsAte(Partidas(times), n - Len(cal))
    /\ op = "none"
    /\ sorteio = << >>
    /\ prox = 0
    /\ res = << >>
    /\ RunParado

\* crossover(cal, pai2) with the cut point random.randint(0, len(pai1) - 1).
AplicarCrossover ==
    /\ Len(cal) > 0
    /\ \E ponto_corte \in 0..(Len(cal) - 1) :
          Aplicada("crossover", << ponto_corte >>, crossover(cal, pai2, ponto_corte))

NextCross == AplicarCrossover

SpecCross == InitCross /\ [][NextCross]_vars


\* ======================================================= constraint-respecting calendars
\* Calendars built to respect the per-round constraints: the pairings are
\* taken in the order of todos_jogos, each one either left out (at most
\* MaxOmitidos of them) or scheduled once, in a round where neither team
\* plays yet and the home city does not host yet.  Rounds are numbered in
\* order of first use; calcular_fitness reads the round number only to
\* group the matches.
CabeNaRodada(ts, c, m, v, r) ==
    \A k \in 1..Len(c) :
        c[k].rodada = r =>
            /\ {c[k].mandante, c[k].visitante} \cap {m, v} = {}
            /\ ts[c[k].mandante].cidade # ts[m].cidade

RodadasUsadas(c) == {c[k].rodada : k \in 1..Len(c)}

RostersValido == {Roster3, Roster4}

InitValido ==
    /\ times \in RostersValido
    /\ cal = << >>
    /\ prox = 1
    /\ op = "none"
    /\ pai2 = << >>
    /\ sorteio = << >>
    /\ res = << >>
    /\ RunParado

Agendar ==
    /\ op = "none"
    /\ prox <= Len(todos_jogos(times))
    /\ LET m == todos_jogos(times)[prox][1]
           v == todos_jogos(times)[prox][2]
       IN  \E r \in 1..(Cardinality(RodadasUsadas(cal)) + 1) :
              /\ CabeNaRodada(times, cal, m, v, r)
              /\ cal' = Append(cal, Partida(m, v, r))
    /\ prox' = prox + 1
    /\ UNCHANGED << config, runvars, op, pai2, sorteio, res >>

Omitir ==
    /\ op = "none"
    /\ prox <= Len(todos_jogos(times))
    /\ (prox - 1) - Len(cal) < MaxOmitidos
    /\ prox' = prox + 1
    /\ UNCHANGED << config, runvars, op, cal, pai2, sorteio, res >>

AvaliarConstruido ==
    /\ prox > Len(todos_jogos(times))
    /\ AplicarFitness

NextValido ==
    \/ Agendar
    \/ Omitir
    \/ AvaliarConstruido

SpecValido == InitValido /\ [][NextValido]_vars


\* ================================================================== claims
\* Vocabulary of the properties.
SemTimeRepetido(c) ==
    \A i, j \in 1..Len(c) :
        (i # j /\ c[i].rodada = c[j].rodada) =>
            {c[i].mandante, c[i].visitante} \cap {c[j].mandante, c[j].visitante} = {}

SemCidadeRepetida(ts, c) ==
    \A i, j \in 1..Len(c) :
        (i # j /\ c[i].rodada = c[j].rodada) =>
            ts[c[i].mandante].cidade # ts[c[j].mandante].cidade

SemConfrontoRepetido(c) ==
    \A i, j \in 1..Len(c) : Confronto(c[i]) = Confronto(c[j]) => i = j

CalendarioValido(ts, c) ==
    /\ SemTimeRepetido(c)
    /\ SemCidadeRepetida(ts, c)
    /\ SemConfrontoRepetido(c)

Calendarios == {populacao[k] : k \in 1..Len(populacao)}
                 \cup {nova_populacao[k] : k \in 1..Len(nova_populacao)}
                 \cup {melhor_calendario}

\* C1: in executar the recorded best fitness never decreases: whenever
\* melhor_fitness is rewritten (it is a fraction num/den with a positive
\* denominator), its new value is greater than or equal to the old one.
C1_MelhorFitnessNaoDecresce ==
    [][(melhor_fitness # SemFitness) =>
          /\ melhor_fitness.den > 0
          /\ melhor_fitness'.den > 0
          /\ melhor_fitness'.num * melhor_fitness.den
                >= melhor_fitness.num * melhor_fitness'.den]_vars

\* A generation has closed with a child in the population that is strictly
\* worse than the recorded best.
C1_Witness ==
    /\ pc = "geracao"
    /\ geracao = 2
    /\ \E k \in 1..Len(populacao) :
          calcular_fitness(times, populacao[k]).den > melhor_fitness.den

\* C2: for a roster of at least 2 teams and tamanho_populacao >= 3, no call
\* made inside the loop of executar raises, and executar returns after
\* exactly geracoes generations.
C2_SemFalha ==
    (Len(times) >= 2 /\ tamanho_populacao >= TamanhoTorneio) =>
        /\ pc # "raised"
        /\ (pc = "done" => geracao = geracoes + 1)

\* C6: for a roster of fewer than 2 teams executar runs to completion
\* without raising and returns the empty calendar with fitness 1.
C6_RosterPequenoCompleta ==
    (pc # "none" /\ Len(times) < 2) =>
        /\ pc # "raised"
        /\ (pc = "done" => melhor_calendario = << >> /\ melhor_fitness = [num |-> 1, den |-> 1])

Confrontos(ts) == {todos_jogos(ts)[k] : k \in 1..Len(todos_jogos(ts))}

Vezes(c, p) == Cardinality({k \in 1..Len(c) : c[k] = p})

NoMaximoUmClassicoPorRodada(ts, c) ==
    \A i, j \in 1..Len(c) :
        (/\ i # j
         /\ c[i].rodada = c[j].rodada
         /\ {c[i].mandante, c[i].visitante} \subseteq times_grandes(ts))
        => ~({c[j].mandante, c[j].visitante} \subseteq times_grandes(ts))

\* C3: for any calendar the penalty total is >= 0, so 0 < fitness <= 1 and
\* fitness = 1 exactly when the penalty is 0; the match-count term is added
\* only for a deficit, a surplus contributes nothing through it.
C3_FitnessLimites ==
    (op = "calcular_fitness") =>
        /\ penalidades(times, cal) >= 0
        /\ res.num = 1 /\ res.den >= 1
        /\ (res.den = 1 <=> penalidades(times, cal) = 0)
        /\ (Len(cal) >= Len(todos_jogos(times)) => PenContagem(todos_jogos(times), cal) = 0)

\* The case of C4: a scored calendar that leaves out exactly 3 required
\* pairings, schedules every other one once, repeats no team and no home
\* city within a round and has at most one marquee clash per round.
C4_Caso ==
    /\ op = "calcular_fitness"
    /\ Len(todos_jogos(times)) - Len(cal) = 3
    /\ \A k \in 1..Len(cal) : Confronto(cal[k]) \in Confrontos(times)
    /\ CalendarioValido(times, cal)
    /\ NoMaximoUmClassicoPorRodada(times, cal)

\* C4 as stated: such a calendar has penalty exactly 3000, fitness 1/3001.
C4_Original == C4_Caso => res = [num |-> 1, den |-> 3001]

\* C4 as amended: such a calendar has penalty exactly 3900 (1000 per missing
\* match and 300 per pairing not scheduled exactly once), fitness 1/3901.
C4_Emendado == C4_Caso => res = [num |-> 1, den |-> 3901]

C4_Witness == C4_Caso

\* The case of C5: the roster A, B, C, D (cities X, X, Y, Y), a scored
\* calendar with all 12 pairings once each, A->B and C->D both in round 1,
\* no team and no home city repeated within a round.
C5_Caso ==
    /\ op = "calcular_fitness"
    /\ times = Roster4
    /\ Len(cal) = Len(todos_jogos(times))
    /\ \A c \in Confrontos(times) : Ocorrencias(cal, c) = 1
    /\ CalendarioValido(times, cal)
    /\ \E i, j \in 1..Len(cal) : cal[i] = Partida(1, 2, 1) /\ cal[j] = Partida(3, 4, 1)

RodadasComDois(c) ==
    {r \in RodadasUsadas(c) : Cardinality({k \in 1..Len(c) : c[k].rodada = r}) = 2}

\* C5 as stated: such a calendar has penalty 0, fitness 1.
C5_Original == C5_Caso => res = [num |-> 1, den |-> 1]

\* C5 as amended: all four teams are in times_grandes, so every match is a
\* marquee clash and every round holding two matches costs 200: the penalty
\* is 200 x (rounds holding two matches), at least 200, and fitness <= 1/201.
C5_Emendado ==
    C5_Caso =>
        /\ res.num = 1
        /\ res.den = 1 + PenClassico * Cardinality(RodadasComDois(cal))
        /\ res.den >= 1 + PenClassico

C5_Witness == C5_Caso /\ Cardinality(RodadasComDois(cal)) = 6

\* C7: in the output of reparar_calendario no round has a team in two
\* matches, a home city in two matches or more than floor(teams / 2) matches,
\* and every output match is an input match with its round unchanged: no
\* match occurs more often in the output than in the input.
C7_ReparoValido ==
    (op = "reparar_calendario") =>
        /\ SemTimeRepetido(res)
        /\ SemCidadeRepetida(times, res)
        /\ \A r \in RodadasUsadas(res) :
              Cardinality({k \in 1..Len(res) : res[k].rodada = r}) <= Len(times) \div 2
        /\ \A k \in 1..Len(res) : Vezes(res, res[k]) <= Vezes(cal, res[k])

\* The repair dropped a match for its home city alone: the input repeats no
\* team within a round.
C7_Witness ==
    /\ op = "reparar_calendario"
    /\ SemTimeRepetido(cal)
    /\ Len(res) < Len(cal)

PontoCorte == sorteio[1]

\* C8 as stated: the child of crossover has at least ponto_corte matches and
\* no (home, away) pairing more than once.
C8_Original ==
    (op = "crossover") =>
        /\ Len(res) >= PontoCorte
        /\ SemConfrontoRepetido(res)

\* C8 as amended: the child has at least ponto_corte matches, and a pairing
\* occurs in it more than once only as often as in the pai1 prefix, which is
\* copied without deduplication; a child of a duplicate-free prefix has no
\* duplicate pairing.
C8_Emendado ==
    (op = "crossover") =>
        /\ Len(res) >= PontoCorte
        /\ \A c \in Confrontos(times) :
              \/ Ocorrencias(res, c) <= 1
              \/ Ocorrencias(res, c) = Ocorrencias(SubSeq(cal, 1, PontoCorte), c)
        /\ (SemConfrontoRepetido(SubSeq(cal, 1, PontoCorte)) => SemConfrontoRepetido(res))

\* A crossover with a non-empty prefix in which pai2 contributed a match and
\* had another one skipped as already present.
C8_Witness ==
    /\ op = "crossover"
    /\ PontoCorte > 0
    /\ Len(res) > PontoCorte
    /\ Len(res) < PontoCorte + Len(pai2)

MutacaoDisparou == op = "mutacao" /\ sorteio # << >>

\* C9 as stated: mutacao keeps the pairings and their counts; when it fires
\* the round numbers of the matches at the two positions are exchanged (each
\* match stays in place and takes the other's round); otherwise the calendar
\* is unchanged.
C9_Original ==
    (op = "mutacao") =>
        /\ \A c \in Confrontos(times) : Ocorrencias(res, c) = Ocorrencias(cal, c)
        /\ (sorteio = << >> => res = cal)
        /\ (sorteio # << >> =>
               res = [cal EXCEPT ![sorteio[1]].rodada = cal[sorteio[2]].rodada,
                                 ![sorteio[2]].rodada = cal[sorteio[1]].rodada])

\* C9 as amended: mutacao keeps the pairings and their counts; when it fires
\* the two Match entries exchange positions whole, each keeping its own round
\* number, so only the order of the list changes; otherwise the calendar is
\* unchanged.
C9_Emendado ==
    (op = "mutacao") =>
        /\ \A c \in Confrontos(times) : Ocorrencias(res, c) = Ocorrencias(cal, c)
        /\ (sorteio = << >> => res = cal)
        /\ (sorteio # << >> =>
               /\ Len(res) = Len(cal)
               /\ res[sorteio[1]] = cal[sorteio[2]]
               /\ res[sorteio[2]] = cal[sorteio[1]]
               /\ \A k \in 1..Len(cal) : k \notin {sorteio[1], sorteio[2]} => res[k] = cal[k]
               /\ \A k \in 1..Len(cal) : Vezes(res, cal[k]) = Vezes(cal, cal[k]))

\* The mutation fired on two matches of different pairings and rounds.
C9_Witness ==
    /\ MutacaoDisparou
    /\ Confronto(cal[sorteio[1]]) # Confronto(cal[sorteio[2]])
    /\ cal[sorteio[1]].rodada # cal[sorteio[2]].rodada

=============================================================================
